---- MODULE Spec2Model ----
(***************************************************************************)
(* movie_scraper.py: scrape_movies (the page loop, the per-item extraction, *)
(* the browser-session scoping) under Spec, and save_to_csv under SaveSpec. *)
(* print() is taken to return: status messages do not change control flow.  *)
(*                                                                          *)
(* Strings are sequences of one-character strings, so that strip(),         *)
(* startswith() and urljoin() are computed rather than assumed.  An         *)
(* optional value (an element find() may not find, an attribute get() may   *)
(* not have) is a sequence of length 0 (None) or 1 (the value).             *)
(***************************************************************************)
EXTENDS Integers, Sequences, FiniteSets, TLC

VARIABLES
    num_pages,    \* argument of scrape_movies
    page_num,     \* loop variable of `for page_num in range(1, num_pages + 1)`
    pc,           \* position of the single thread of control
    driver,       \* local `driver`: 0 is None, otherwise the id of a session
    sessions,     \* browser sessions created so far: id -> "open" / "closed"
    movie_items,  \* local `movie_items` of the page being extracted
    item_idx,     \* position of `for item in movie_items`
    movies,       \* the accumulator `movies`
    attempts,     \* log: one entry per page the loop started ("Scraping page n")
    origin,       \* log: for each record of movies, the <<page, item>> it came from
    sleeps,       \* log: page_num at each completed time.sleep(1)
    file,         \* the destination file: absent (<<>>) or <<rows>>
    row_idx,      \* next row writer.writerows is about to write
    save_result   \* what save_to_csv reported: "none", "empty", "ok", "error"

vars == <<num_pages, page_num, pc, driver, sessions, movie_items, item_idx,
          movies, attempts, origin, sleeps, file, row_idx, save_result>>

----------------------------------------------------------------------------
(* Bounds *)

\* largest num_pages tried
MaxPages == 2

\* largest number of item containers rendered over one run (all pages together)
MaxItems == 3

\* longest list of dicts handed to save_to_csv
MaxRows == 2

----------------------------------------------------------------------------
(* Strings *)

NA == <<"N", "/", "A">>

BASE_URL ==
    <<"h","t","t","p","s",":","/","/","s","s","r","1",".",
      "s","c","r","a","p","e",".","c","e","n","t","e","r">>

HttpPrefix == <<"h","t","t","p">>

Whitespace == {" ", "\n", "\t"}

Letters ==
    {"a","b","c","d","e","f","g","h","i","j","k","l","m","n","o","p","q","r",
     "s","t","u","v","w","x","y","z",
     "A","B","C","D","E","F","G","H","I","J","K","L","M","N","O","P","Q","R",
     "S","T","U","V","W","X","Y","Z"}

SchemeChars == Letters \cup {"0","1","2","3","4","5","6","7","8","9","+","-","."}

None == <<>>

Some(v) == <<v>>

\* Python truthiness of an Optional[str]: present and non-empty
Truthy(opt) == opt # None /\ opt[1] # <<>>

RECURSIVE lstrip(_)
lstrip(s) ==
    IF s # <<>> /\ Head(s) \in Whitespace THEN lstrip(Tail(s)) ELSE s

RECURSIVE rstrip(_)
rstrip(s) ==
    IF s # <<>> /\ s[Len(s)] \in Whitespace
    THEN rstrip(SubSeq(s, 1, Len(s) - 1))
    ELSE s

\* str.strip(), and get_text(strip=True) of an element with one text node
strip(s) == rstrip(lstrip(s))

startswith(s, prefix) ==
    Len(s) >= Len(prefix) /\ SubSeq(s, 1, Len(prefix)) = prefix

\* ' '.join(list)
RECURSIVE join(_)
join(list) ==
    IF list = <<>> THEN <<>>
    ELSE IF Len(list) = 1 THEN list[1]
    ELSE list[1] \o <<" ">> \o join(Tail(list))

\* urlsplit finds a scheme: letters, digits, + - . up to the first ':',
\* starting with a letter
HasScheme(url) ==
    \E i \in 2..Len(url) :
        /\ url[i] = ":"
        /\ url[1] \in Letters
        /\ \A j \in 1..(i - 1) : url[j] \in SchemeChars

\* urllib.parse.urljoin(base, url) for the https base without path, query or
\* fragment, and a url that does not start with http (the caller joins no
\* other) and has no whitespace, dot segments, query or fragment: a url with a
\* scheme of its own is returned as it is, //host/path takes the base's
\* scheme, /path the base's host, and a relative path is put under the root
urljoin(base, url) ==
    IF url = <<>> THEN base
    ELSE IF HasScheme(url) THEN url
    ELSE IF startswith(url, <<"/", "/">>) THEN <<"h","t","t","p","s",":">> \o url
    ELSE IF startswith(url, <<"/">>) THEN base \o url
    ELSE base \o <<"/">> \o url

----------------------------------------------------------------------------
(* Items: what BeautifulSoup finds inside one <div class="item">.           *)
(*   img    item.find('img'): None or [src: Optional[str]]                  *)
(*   a_name item.find('a', class_='name'): None or [title, text]            *)
(*   a_any  item.find('a'): None or [title, text]                           *)
(*   score  item.find('p', class_='score'): None or its text                *)
(*   cats   texts of item.find_all('button', class_='category')             *)
(*   fault  a field access on this item raises an Exception                 *)

Farewell == <<"F","a","r","e","w","e","l","l">>

FarewellFull ==
    <<"F","a","r","e","w","e","l","l"," ","M","y"," ",
      "C","o","n","c","u","b","i","n","e">>

Anchor(title, text) == [title |-> title, text |-> text]

\* title and text, relative image, padded score, two categories
ItemWellFormed ==
    [img    |-> Some([src |-> Some(<<"/","i","m","g","/","x",".","j","p","g">>)]),
     a_name |-> Some(Anchor(Some(Farewell), FarewellFull)),
     a_any  |-> Some(Anchor(Some(Farewell), FarewellFull)),
     score  |-> Some(<<" ","9",".","5","\n">>),
     cats   |-> << <<"D","r","a","m","a">>, <<" ","C","r","i","m","e">> >>,
     fault  |-> FALSE]

\* no <img> at all
ItemNoImg ==
    [img    |-> None,
     a_name |-> Some(Anchor(Some(Farewell), FarewellFull)),
     a_any  |-> Some(Anchor(Some(Farewell), FarewellFull)),
     score  |-> Some(<<"9",".","5">>),
     cats   |-> << <<"D","r","a","m","a">> >>,
     fault  |-> FALSE]

\* <img> without a src attribute
ItemNoSrc ==
    [img    |-> Some([src |-> None]),
     a_name |-> None,
     a_any  |-> Some(Anchor(None, <<"U","p">>)),
     score  |-> Some(<<"8">>),
     cats   |-> <<>>,
     fault  |-> FALSE]

\* <img src="">
ItemEmptySrc ==
    [img    |-> Some([src |-> Some(<<>>)]),
     a_name |-> Some(Anchor(Some(Farewell), FarewellFull)),
     a_any  |-> Some(Anchor(Some(Farewell), FarewellFull)),
     score  |-> None,
     cats   |-> <<>>,
     fault  |-> FALSE]

\* absolute image; only a plain <a>, without title, padded text
ItemTextOnly ==
    [img    |-> Some([src |-> Some(<<"h","t","t","p",":","/","/","c","/","y">>)]),
     a_name |-> None,
     a_any  |-> Some(Anchor(None, <<" ","U","p","\n">>)),
     score  |-> None,
     cats   |-> <<>>,
     fault  |-> FALSE]

\* relative image; title of blanks only
ItemBlankTitle ==
    [img    |-> Some([src |-> Some(<<"x",".","j","p","g">>)]),
     a_name |-> Some(Anchor(Some(<<" ", " ">>), <<"U","p">>)),
     a_any  |-> Some(Anchor(Some(<<" ", " ">>), <<"U","p">>)),
     score  |-> Some(<<"7">>),
     cats   |-> <<>>,
     fault  |-> FALSE]

\* image whose src is the text N/A; only a plain <a>, without title, that
\* wraps the poster and holds no text
ItemEmptyText ==
    [img    |-> Some([src |-> Some(NA)]),
     a_name |-> None,
     a_any  |-> Some(Anchor(None, <<"\n", " ">>)),
     score  |-> None,
     cats   |-> <<>>,
     fault  |-> FALSE]

\* image, no link at all
ItemNoLink ==
    [img    |-> Some([src |-> Some(<<"/","/","c","/","z">>)]),
     a_name |-> None,
     a_any  |-> None,
     score  |-> None,
     cats   |-> << <<"W","a","r">> >>,
     fault  |-> FALSE]

\* well-formed markup on which a field access raises
ItemFaulty ==
    [img    |-> Some([src |-> Some(<<"/","i","m","g","/","x",".","j","p","g">>)]),
     a_name |-> Some(Anchor(Some(Farewell), FarewellFull)),
     a_any  |-> Some(Anchor(Some(Farewell), FarewellFull)),
     score  |-> Some(<<"9">>),
     cats   |-> <<>>,
     fault  |-> TRUE]

\* the item containers pages are made of
ItemPool ==
    {ItemWellFormed, ItemNoImg, ItemNoSrc, ItemEmptySrc, ItemTextOnly,
     ItemEmptyText, ItemFaulty}

\* the item lists a rendered page can hold, at most n items
ItemLists(n) == UNION {[1..k -> ItemPool] : k \in 0..n}

----------------------------------------------------------------------------
(* Per-item extraction *)

\* image_url: "N/A" unless the item has an <img> with a non-empty src;
\* a src not starting with http is joined to BASE_URL
ImageUrl(item) ==
    IF item.img # None /\ Truthy(item.img[1].src)
    THEN LET src == item.img[1].src[1]
         IN  IF src # <<>> /\ ~startswith(src, HttpPrefix)
             THEN urljoin(BASE_URL, src)
             ELSE src
    ELSE NA

\* name_elem: the <a class="name">, else the first <a>
NameElem(item) == IF item.a_name # None THEN item.a_name ELSE item.a_any

\* movie_name
MovieName(item) ==
    LET name_elem == NameElem(item)
    IN  IF name_elem # None
        THEN IF Truthy(name_elem[1].title)
             THEN strip(name_elem[1].title[1])
             ELSE strip(name_elem[1].text)
        ELSE NA

\* rating
Rating(item) == IF item.score # None THEN strip(item.score[1]) ELSE NA

\* genre
Genre(item) ==
    IF item.cats # <<>>
    THEN join([i \in 1..Len(item.cats) |-> strip(item.cats[i])])
    ELSE NA

\* the dict appended to movies
MovieDict(item) ==
    [name      |-> MovieName(item),
     image_url |-> ImageUrl(item),
     rating    |-> Rating(item),
     genre     |-> Genre(item)]

\* faulty variant of HasValidImage: tests for the empty string, not for "N/A"
HasValidImageNonEmpty(image_url) == image_url # <<>>

\* `if image_url != "N/A"`
HasValidImage(image_url) == image_url # NA

\* faulty variant of Append_movies: movies.insert(0, d)
Insert_movies(list, d) == <<d>> \o list

\* movies.append(d)
Append_movies(list, d) == Append(list, d)

----------------------------------------------------------------------------
(* save_to_csv helpers *)

\* fieldnames = ['name', 'image_url', 'rating', 'genre']
fieldnames ==
    << <<"n","a","m","e">>,
       <<"i","m","a","g","e","_","u","r","l">>,
       <<"r","a","t","i","n","g">>,
       <<"g","e","n","r","e">> >>

\* rowdict.get(key)
FieldOf(m, key) ==
    CASE key = <<"n","a","m","e">> -> m.name
      [] key = <<"i","m","a","g","e","_","u","r","l">> -> m.image_url
      [] key = <<"r","a","t","i","n","g">> -> m.rating
      [] key = <<"g","e","n","r","e">> -> m.genre

\* the row DictWriter writes for one dict: its values in fieldnames order
\* (rows are kept as field tuples; quoting of the cells is not modelled)
Row(m) == [i \in 1..Len(fieldnames) |-> FieldOf(m, fieldnames[i])]

\* a movie.csv left by an earlier run
OldFile == <<fieldnames, <<Farewell, BASE_URL, NA, NA>> >>

----------------------------------------------------------------------------
(* scrape_movies *)

RECURSIVE ItemsSeen(_)
ItemsSeen(log) ==
    IF log = <<>> THEN 0 ELSE Len(Head(log).items) + ItemsSeen(Tail(log))

\* the outcome of the page being processed, noted in the log
Note(outcome, items) ==
    [attempts EXCEPT ![Len(attempts)] =
        [page |-> page_num, outcome |-> outcome, items |-> items]]

Init ==
    /\ num_pages \in -1..MaxPages
    /\ page_num = 0
    /\ pc = "loop"
    /\ driver = 0
    /\ sessions = <<>>
    /\ movie_items = <<>>
    /\ item_idx = 0
    /\ movies = <<>>
    /\ attempts = <<>>
    /\ origin = <<>>
    /\ sleeps = <<>>
    /\ file = None
    /\ row_idx = 0
    /\ save_result = "none"

\* faulty variant of LoopNext: range(1, num_pages + 2)
LoopNextOneMore ==
    /\ pc = "loop"
    /\ page_num + 1 <= num_pages + 1
    /\ page_num' = page_num + 1
    /\ driver' = 0
    /\ attempts' = Append(attempts,
                     [page |-> page_num + 1, outcome |-> "pending", items |-> <<>>])
    /\ pc' = "init"
    /\ UNCHANGED <<num_pages, sessions, movie_items, item_idx, movies, origin,
                   sleeps, file, row_idx, save_result>>

\* for page_num in range(1, num_pages + 1): next index; driver = None
LoopNext ==
    /\ pc = "loop"
    /\ page_num + 1 <= num_pages
    /\ page_num' = page_num + 1
    /\ driver' = 0
    /\ attempts' = Append(attempts,
                     [page |-> page_num + 1, outcome |-> "pending", items |-> <<>>])
    /\ pc' = "init"
    /\ UNCHANGED <<num_pages, sessions, movie_items, item_idx, movies, origin,
                   sleeps, file, row_idx, save_result>>

\* range exhausted: return movies
LoopExit ==
    /\ pc = "loop"
    /\ page_num + 1 > num_pages
    /\ pc' = "done"
    /\ UNCHANGED <<num_pages, page_num, driver, sessions, movie_items, item_idx,
                   movies, attempts, origin, sleeps, file, row_idx, save_result>>

\* driver = init_driver() returns a new session
InitDriverOk ==
    /\ pc = "init"
    /\ sessions' = Append(sessions, "open")
    /\ driver' = Len(sessions) + 1
    /\ pc' = "get"
    /\ UNCHANGED <<num_pages, page_num, movie_items, item_idx, movies, attempts,
                   origin, sleeps, file, row_idx, save_result>>

\* init_driver() raises: driver stays None
InitDriverRaise ==
    /\ pc = "init"
    /\ attempts' = Note("launch", <<>>)
    /\ pc' = "except"
    /\ UNCHANGED <<num_pages, page_num, driver, sessions, movie_items, item_idx,
                   movies, origin, sleeps, file, row_idx, save_result>>

\* driver.get(url) raises
GetRaise ==
    /\ pc = "get"
    /\ attempts' = Note("nav", <<>>)
    /\ pc' = "except"
    /\ UNCHANGED <<num_pages, page_num, driver, sessions, movie_items, item_idx,
                   movies, origin, sleeps, file, row_idx, save_result>>

\* driver.get(url) and wait.until(...) return; soup and movie_items are taken
\* from page_source
WaitOk ==
    /\ pc = "get"
    /\ \E items \in ItemLists(MaxItems - ItemsSeen(attempts)) :
          /\ movie_items' = items
          /\ attempts' = Note("ok", items)
    /\ item_idx' = 1
    /\ pc' = "items"
    /\ UNCHANGED <<num_pages, page_num, driver, sessions, movies, origin, sleeps,
                   file, row_idx, save_result>>

\* wait.until(...) raises TimeoutException after 10 seconds
WaitTimeout ==
    /\ pc = "get"
    /\ attempts' = Note("timeout", <<>>)
    /\ pc' = "except"
    /\ UNCHANGED <<num_pages, page_num, driver, sessions, movie_items, item_idx,
                   movies, origin, sleeps, file, row_idx, save_result>>

\* one iteration of `for item in movie_items` that reaches movies.append
ItemAppend ==
    /\ pc = "items"
    /\ item_idx <= Len(movie_items)
    /\ ~movie_items[item_idx].fault
    /\ HasValidImage(ImageUrl(movie_items[item_idx]))
    /\ movies' = Append_movies(movies, MovieDict(movie_items[item_idx]))
    /\ origin' = Append(origin, <<page_num, item_idx>>)
    /\ item_idx' = item_idx + 1
    /\ UNCHANGED <<num_pages, page_num, pc, driver, sessions, movie_items,
                   attempts, sleeps, file, row_idx, save_result>>

\* one iteration whose image_url is "N/A": nothing appended
ItemSkip ==
    /\ pc = "items"
    /\ item_idx <= Len(movie_items)
    /\ ~movie_items[item_idx].fault
    /\ ~HasValidImage(ImageUrl(movie_items[item_idx]))
    /\ item_idx' = item_idx + 1
    /\ UNCHANGED <<num_pages, page_num, pc, driver, sessions, movie_items, movies,
                   attempts, origin, sleeps, file, row_idx, save_result>>

\* faulty variant of ItemExcept: no try around the item, the exception reaches
\* the handler of the page
ItemExceptPropagates ==
    /\ pc = "items"
    /\ item_idx <= Len(movie_items)
    /\ movie_items[item_idx].fault
    /\ attempts' = Note("extract", movie_items)
    /\ pc' = "except"
    /\ UNCHANGED <<num_pages, page_num, driver, sessions, movie_items, item_idx,
                   movies, origin, sleeps, file, row_idx, save_result>>

\* one iteration that raises: except Exception: print; continue
ItemExcept ==
    /\ pc = "items"
    /\ item_idx <= Len(movie_items)
    /\ movie_items[item_idx].fault
    /\ item_idx' = item_idx + 1
    /\ UNCHANGED <<num_pages, page_num, pc, driver, sessions, movie_items, movies,
                   attempts, origin, sleeps, file, row_idx, save_result>>

\* faulty variant of PaceSleep: the driver is quit before the pause
PaceSleepAfterQuit ==
    /\ pc = "items"
    /\ item_idx > Len(movie_items)
    /\ page_num < num_pages
    /\ sessions' = [sessions EXCEPT ![driver] = "closed"]
    /\ pc' = "sleep"
    /\ UNCHANGED <<num_pages, page_num, driver, movie_items, item_idx, movies,
                   attempts, origin, sleeps, file, row_idx, save_result>>

\* the item loop is exhausted: `if page_num < num_pages` is true
PaceSleep ==
    /\ pc = "items"
    /\ item_idx > Len(movie_items)
    /\ page_num < num_pages
    /\ pc' = "sleep"
    /\ UNCHANGED <<num_pages, page_num, driver, sessions, movie_items, item_idx,
                   movies, attempts, origin, sleeps, file, row_idx, save_result>>

\* the item loop is exhausted on the last page: no sleep
PaceLast ==
    /\ pc = "items"
    /\ item_idx > Len(movie_items)
    /\ ~(page_num < num_pages)
    /\ pc' = "finally"
    /\ UNCHANGED <<num_pages, page_num, driver, sessions, movie_items, item_idx,
                   movies, attempts, origin, sleeps, file, row_idx, save_result>>

\* time.sleep(1) returns
Sleep ==
    /\ pc = "sleep"
    /\ sleeps' = Append(sleeps, page_num)
    /\ pc' = "finally"
    /\ UNCHANGED <<num_pages, page_num, driver, sessions, movie_items, item_idx,
                   movies, attempts, origin, file, row_idx, save_result>>

\* faulty variant of ExceptPage: break, not continue (the finally clause runs,
\* then the function returns)
ExceptPageBreak ==
    /\ pc = "except"
    /\ sessions' = IF driver # 0 THEN [sessions EXCEPT ![driver] = "closed"]
                   ELSE sessions
    /\ pc' = "done"
    /\ UNCHANGED <<num_pages, page_num, driver, movie_items, item_idx, movies,
                   attempts, origin, sleeps, file, row_idx, save_result>>

\* except Exception as e: print; continue (the finally clause runs first)
ExceptPage ==
    /\ pc = "except"
    /\ pc' = "finally"
    /\ UNCHANGED <<num_pages, page_num, driver, sessions, movie_items, item_idx,
                   movies, attempts, origin, sleeps, file, row_idx, save_result>>

\* faulty variant of FinallyQuit: the finally clause does not quit the driver
FinallyNoQuit ==
    /\ pc = "finally"
    /\ driver # 0
    /\ pc' = "loop"
    /\ UNCHANGED <<num_pages, page_num, driver, sessions, movie_items, item_idx,
                   movies, attempts, origin, sleeps, file, row_idx, save_result>>

\* finally: driver is set: driver.quit(); what quit() raises is swallowed, and
\* the Chrome driver stops its service whether or not the quit command failed
FinallyQuit ==
    /\ pc = "finally"
    /\ driver # 0
    /\ sessions' = [sessions EXCEPT ![driver] = "closed"]
    /\ pc' = "loop"
    /\ UNCHANGED <<num_pages, page_num, driver, movie_items, item_idx, movies,
                   attempts, origin, sleeps, file, row_idx, save_result>>

\* finally: driver is None
FinallyNone ==
    /\ pc = "finally"
    /\ driver = 0
    /\ pc' = "loop"
    /\ UNCHANGED <<num_pages, page_num, driver, sessions, movie_items, item_idx,
                   movies, attempts, origin, sleeps, file, row_idx, save_result>>

----------------------------------------------------------------------------
(* save_to_csv(movies): its argument is any list of dicts scrape_movies can   *)
(* return, the destination is absent or left by an earlier run; the          *)
(* variables of scrape_movies play no part and keep their initial values.    *)

\* the dicts scrape_movies can append
Dicts ==
    {MovieDict(item) :
        item \in {i \in ItemPool \cup {ItemBlankTitle, ItemNoLink} :
                     ~i.fault /\ HasValidImage(ImageUrl(i))}}

SaveInit ==
    /\ num_pages = 0
    /\ page_num = 0
    /\ pc = "save"
    /\ driver = 0
    /\ sessions = <<>>
    /\ movie_items = <<>>
    /\ item_idx = 0
    /\ movies \in UNION {[1..k -> Dicts] : k \in 0..MaxRows}
    /\ attempts = <<>>
    /\ origin = <<>>
    /\ sleeps = <<>>
    /\ file \in {None, Some(OldFile)}
    /\ row_idx = 0
    /\ save_result = "none"

\* if not movies: print("No movies to save!"); return
SaveEmpty ==
    /\ pc = "save"
    /\ movies = <<>>
    /\ save_result' = "empty"
    /\ pc' = "end"
    /\ UNCHANGED <<num_pages, page_num, driver, sessions, movie_items, item_idx,
                   movies, attempts, origin, sleeps, file, row_idx>>

\* open(filename, 'w') creates or truncates the file
OpenOk ==
    /\ pc = "save"
    /\ movies # <<>>
    /\ file' = Some(<<>>)
    /\ pc' = "header"
    /\ UNCHANGED <<num_pages, page_num, driver, sessions, movie_items, item_idx,
                   movies, attempts, origin, sleeps, row_idx, save_result>>

\* open raises IOError: the destination is not writable
OpenRaise ==
    /\ pc = "save"
    /\ movies # <<>>
    /\ pc' = "ioerror"
    /\ UNCHANGED <<num_pages, page_num, driver, sessions, movie_items, item_idx,
                   movies, attempts, origin, sleeps, file, row_idx, save_result>>

\* faulty variant of WriteHeader: writer.writeheader() is not called
WriteHeaderOmitted ==
    /\ pc = "header"
    /\ row_idx' = 1
    /\ pc' = "rows"
    /\ UNCHANGED <<num_pages, page_num, driver, sessions, movie_items, item_idx,
                   movies, attempts, origin, sleeps, file, save_result>>

\* writer.writeheader()
WriteHeader ==
    /\ pc = "header"
    /\ file' = Some(Append(file[1], fieldnames))
    /\ row_idx' = 1
    /\ pc' = "rows"
    /\ UNCHANGED <<num_pages, page_num, driver, sessions, movie_items, item_idx,
                   movies, attempts, origin, sleeps, save_result>>

\* writer.writerows(movies), one row
WriteRow ==
    /\ pc = "rows"
    /\ row_idx <= Len(movies)
    /\ file' = Some(Append(file[1], Row(movies[row_idx])))
    /\ row_idx' = row_idx + 1
    /\ UNCHANGED <<num_pages, page_num, pc, driver, sessions, movie_items,
                   item_idx, movies, attempts, origin, sleeps, save_result>>

\* a write raises IOError (disk full, device gone)
WriteRaise ==
    /\ pc \in {"header", "rows"}
    /\ pc' = "ioerror"
    /\ UNCHANGED <<num_pages, page_num, driver, sessions, movie_items, item_idx,
                   movies, attempts, origin, sleeps, file, row_idx, save_result>>

\* the with block ends: print("Successfully saved ...")
SaveOk ==
    /\ pc = "rows"
    /\ row_idx > Len(movies)
    /\ save_result' = "ok"
    /\ pc' = "end"
    /\ UNCHANGED <<num_pages, page_num, driver, sessions, movie_items, item_idx,
                   movies, attempts, origin, sleeps, file, row_idx>>

\* except IOError as e: print("Error saving to CSV")
ExceptIO ==
    /\ pc = "ioerror"
    /\ save_result' = "error"
    /\ pc' = "end"
    /\ UNCHANGED <<num_pages, page_num, driver, sessions, movie_items, item_idx,
                   movies, attempts, origin, sleeps, file, row_idx>>

Next ==
    \/ LoopNext
    \/ LoopExit
    \/ InitDriverOk
    \/ InitDriverRaise
    \/ GetRaise
    \/ WaitOk
    \/ WaitTimeout
    \/ ItemAppend
    \/ ItemSkip
    \/ ItemExcept
    \/ PaceSleep
    \/ PaceLast
    \/ Sleep
    \/ ExceptPage
    \/ FinallyQuit
    \/ FinallyNone

Spec == Init /\ [][Next]_vars

SaveNext ==
    \/ SaveEmpty
    \/ OpenOk
    \/ OpenRaise
    \/ WriteHeader
    \/ WriteRow
    \/ WriteRaise
    \/ SaveOk
    \/ ExceptIO

SaveSpec == SaveInit /\ [][SaveNext]_vars

----------------------------------------------------------------------------
(* Properties *)

Max(a, b) == IF a >= b THEN a ELSE b

Range(f) == {f[i] : i \in DOMAIN f}

OpenSessions == {s \in DOMAIN sessions : sessions[s] = "open"}

\* the item container a record of movies was extracted from
ItemAt(o) == attempts[o[1]].items[o[2]]

\* an item that yields a record: it raises nothing and has an <img> with a
\* non-empty src
Yields(item) ==
    /\ ~item.fault
    /\ item.img # None
    /\ item.img[1].src # None
    /\ item.img[1].src[1] # <<>>

\* the records a logged page is due to contribute
RECURSIVE RecordsOf(_)
RecordsOf(items) ==
    IF items = <<>> THEN <<>>
    ELSE (IF Yields(Head(items)) THEN <<MovieDict(Head(items))>> ELSE <<>>)
         \o RecordsOf(Tail(items))

RECURSIVE Expected(_)
Expected(log) ==
    IF log = <<>> THEN <<>>
    ELSE (IF Head(log).outcome = "ok" THEN RecordsOf(Head(log).items) ELSE <<>>)
         \o Expected(Tail(log))

\* pages whose iteration is over
PageOver(p) ==
    \/ p < page_num
    \/ p = page_num /\ pc \in {"sleep", "finally", "loop", "done"}

\* C1: pages 1..num_pages are attempted once each, in ascending order; a page
\* that failed to render (launch, navigation, timeout) contributes no record;
\* the pages after it are still processed, and the run returns exactly the
\* records of the pages that rendered.
C1_FailedPagesAreIsolated ==
    /\ \A i \in 1..Len(attempts) : attempts[i].page = i
    /\ Len(attempts) <= Max(num_pages, 0)
    /\ \A k \in 1..Len(origin) : attempts[origin[k][1]].outcome = "ok"
    /\ pc = "done" =>
          /\ Len(attempts) = Max(num_pages, 0)
          /\ \A i \in 1..Len(attempts) : attempts[i].outcome # "pending"
          /\ movies = Expected(attempts)

\* two pages, the first times out, the second holds three well-formed items:
\* exactly three records are returned
C1_Witness ==
    /\ pc = "done"
    /\ num_pages = 2
    /\ attempts[1].outcome = "timeout"
    /\ attempts[2].items = <<ItemWellFormed, ItemWellFormed, ItemWellFormed>>
    /\ Len(movies) = 3

\* C2: no record of the accumulator has image_url "N/A", and every record
\* comes from an item that has an image element with a non-empty source.
C2_InclusionGate ==
    /\ Len(origin) = Len(movies)
    /\ \A k \in 1..Len(movies) :
          /\ movies[k].image_url # NA
          /\ ItemAt(origin[k]).img # None
          /\ ItemAt(origin[k]).img[1].src # None
          /\ ItemAt(origin[k]).img[1].src[1] # <<>>

\* a page of three items (no image, image without src, image with empty src)
\* has been extracted to the end and nothing was recorded
C2_Witness ==
    /\ pc = "done"
    /\ num_pages = 1
    /\ attempts[1].items = <<ItemNoImg, ItemNoSrc, ItemEmptySrc>>
    /\ movies = <<>>

\* C3: at most one session is open, it is the one `driver` holds, none is open
\* when the next page starts or when scrape_movies has returned.
C3_SessionScoped ==
    /\ Cardinality(OpenSessions) <= 1
    /\ \A s \in OpenSessions : s = driver /\ s = Len(sessions)
    /\ pc \in {"loop", "init", "done"} => OpenSessions = {}

\* returned after a page that timed out and a page on which an item raised,
\* each with a session of its own
C3_Witness ==
    /\ pc = "done"
    /\ Len(sessions) = 2
    /\ attempts[1].outcome = "timeout"
    /\ attempts[2].outcome = "ok"
    /\ \E i \in 1..Len(attempts[2].items) : attempts[2].items[i].fault

\* C4 as stated: a completed run with num_pages >= 1 has slept once after
\* every page but the last, rendered or not: num_pages - 1 pauses.
C4_PauseAfterEveryPageButLast ==
    (pc = "done" /\ num_pages >= 1) =>
        sleeps = [i \in 1..(num_pages - 1) |-> i]

\* C5: a step leaves movies as it is or appends one record at its end; the
\* records are in page order, then in document order, and each is the dict of
\* the item it came from.
C5_AppendOnlyOrdered ==
    /\ [][\/ movies' = movies
          \/ /\ Len(movies') = Len(movies) + 1
             /\ SubSeq(movies', 1, Len(movies)) = movies]_vars
    /\ [](/\ Len(origin) = Len(movies)
          /\ \A k \in 1..Len(movies) : movies[k] = MovieDict(ItemAt(origin[k]))
          /\ \A j, k \in 1..Len(origin) :
                j < k => \/ origin[j][1] < origin[k][1]
                         \/ /\ origin[j][1] = origin[k][1]
                            /\ origin[j][2] < origin[k][2])

\* three records returned, from two pages, two of them from the same page
C5_Witness ==
    /\ pc = "done"
    /\ Len(movies) = 3
    /\ origin[1][1] = 1
    /\ origin[2][1] = 2
    /\ origin[3][1] = 2
    /\ movies[1] # movies[2]
    /\ movies[2] # movies[3]

\* what is left to do: the pages not yet started, then the steps left on the
\* page being processed
StepsLeft ==
    LET perPage == MaxItems + 8
        rest == perPage * (Max(num_pages, 0) - page_num)
    IN  CASE pc = "done" -> 0
          [] pc = "loop" -> rest + 1
          [] pc = "finally" -> rest + 2
          [] pc = "sleep" -> rest + 3
          [] pc = "except" -> rest + 3
          [] pc = "items" -> rest + 4 + (Len(movie_items) + 1 - item_idx)
          [] pc = "get" -> rest + MaxItems + 6
          [] pc = "init" -> rest + MaxItems + 7

\* C6: scrape_movies terminates: every step brings the return nearer and no
\* state short of the return is stuck; it returns after Max(num_pages, 0)
\* iterations, and with num_pages <= 0 nothing was created, slept or extracted.
C6_Terminates ==
    /\ [][StepsLeft' < StepsLeft]_vars
    /\ [](StepsLeft >= 0)
    /\ [](pc # "done" => ENABLED Next)
    /\ [](pc = "done" =>
            /\ Len(attempts) = Max(num_pages, 0)
            /\ page_num = Max(num_pages, 0)
            /\ num_pages <= 0 =>
                  /\ movies = <<>>
                  /\ sessions = <<>>
                  /\ sleeps = <<>>
                  /\ origin = <<>>)

\* returned at once from a call with num_pages = 0
C6_Witness ==
    /\ pc = "done"
    /\ num_pages = 0
    /\ attempts = <<>>
    /\ movies = <<>>

\* C7: the iteration of an item that raises changes nothing but the position
\* in the item loop (the records so far stay, the page stays rendered, the
\* loop goes on); once a page is over, each of its items that raises nothing
\* and has an image is in the accumulator, and none that raised is.
C7_ItemFaultContained ==
    /\ [][(/\ pc = "items"
           /\ item_idx <= Len(movie_items)
           /\ movie_items[item_idx].fault)
          => /\ movies' = movies
             /\ pc' = "items"
             /\ item_idx' = item_idx + 1
             /\ movie_items' = movie_items
             /\ attempts' = attempts
             /\ sessions' = sessions]_vars
    /\ [](\A p \in 1..Len(attempts) :
            (PageOver(p) /\ attempts[p].outcome = "ok") =>
                \A i \in 1..Len(attempts[p].items) :
                    Yields(attempts[p].items[i]) <=> <<p, i>> \in Range(origin))

\* a page with a record, then an item that raised, then another record
C7_Witness ==
    /\ pc = "done"
    /\ num_pages = 1
    /\ attempts[1].outcome = "ok"
    /\ attempts[1].items = <<ItemWellFormed, ItemFaulty, ItemTextOnly>>
    /\ movies = <<MovieDict(ItemWellFormed), MovieDict(ItemTextOnly)>>

\* C8: save_to_csv with an empty list leaves the destination as it was; when
\* it reports success the file is the header row name,image_url,rating,genre
\* followed by one row per record, in order; and every call ends by returning
\* with a report, also when a write raised IOError.
C8_SaveToCsv ==
    /\ [][movies = <<>> => file' = file]_vars
    /\ [](movies = <<>> => save_result \in {"none", "empty"})
    /\ [](save_result = "ok" =>
            /\ file # None
            /\ Len(file[1]) = Len(movies) + 1
            /\ file[1][1] = << <<"n","a","m","e">>,
                               <<"i","m","a","g","e","_","u","r","l">>,
                               <<"r","a","t","i","n","g">>,
                               <<"g","e","n","r","e">> >>
            /\ \A i \in 1..Len(movies) :
                  file[1][i + 1] = <<movies[i].name, movies[i].image_url,
                                     movies[i].rating, movies[i].genre>>)
    /\ []((~ENABLED SaveNext) => (pc = "end" /\ save_result # "none"))

\* two records saved over a file of an earlier run: three rows
C8_Witness ==
    /\ pc = "end"
    /\ save_result = "ok"
    /\ Len(movies) = 2
    /\ movies[1] # movies[2]
    /\ Len(file[1]) = 3

\* first non-empty of: the title stripped, the text stripped, "N/A"
FirstNonEmptyName(item) ==
    LET el == NameElem(item)
        title == IF el # None /\ el[1].title # None THEN strip(el[1].title[1]) ELSE <<>>
        text == IF el # None THEN strip(el[1].text) ELSE <<>>
    IN  IF title # <<>> THEN title
        ELSE IF text # <<>> THEN text
        ELSE NA

\* C9 as stated: the name of every record is the first non-empty of title,
\* text and "N/A", and so never the empty string.
C9_NameFirstNonEmptyWins ==
    \A k \in 1..Len(movies) :
        /\ movies[k].name = FirstNonEmptyName(ItemAt(origin[k]))
        /\ movies[k].name # <<>>

\* C10 as stated: no pacing pause runs while a browser session is open.
C10_NoPauseWhileSessionOpen ==
    pc = "sleep" => OpenSessions = {}

\* C10 amended: the session of a page stays open through the extraction and
\* the pacing pause of that page, and is closed before the next page starts.
C10_SessionClosedAfterPause ==
    /\ pc \in {"items", "sleep"} => (driver # 0 /\ OpenSessions = {driver})
    /\ pc \in {"loop", "init", "done"} => OpenSessions = {}

\* the pause after a rendered page is running
C10_Witness ==
    /\ pc = "sleep"
    /\ OpenSessions = {driver}
    /\ movies # <<>>

====
